---------------------------- MODULE Spec2Model ----------------------------
(***************************************************************************)
(* Model of the batching dispatcher of IngressClient (ingress_client.go). *)
(*                                                                         *)
(* Processes: the producers (goroutines calling EmitLog / EmitGauge /      *)
(* EmitCounter), one caller of CloseSend, the dispatcher goroutine         *)
(* (startSender, with flush and emit inlined step by step), the Go         *)
(* runtime's timer, and the clock.  The transport (BatchSender, Send,      *)
(* CloseSend of the stream) is an external collaborator: every call to it  *)
(* returns success or an error, nondeterministically.                      *)
(***************************************************************************)
EXTENDS Integers, Sequences, FiniteSets

\* ------------------------------------------------------------- bounds ---
\* Number of records the producers create in one behaviour.
MaxRecords == 3
\* Capacity of the envelopes channel (100 in NewIngressClient), scaled down.
QueueCap == 2
\* Largest value drawn for the batchMaxSize option.
MaxBatchMaxSize == 2
\* The batchFlushInterval option, in clock ticks: the tick is the unit in
\* which the timer's countdown is observed, so a larger value is a finer
\* observation of the same interval.
MaxFlushInterval == 2
Producers == {"p1", "p2"}

VARIABLES
    batchMaxSize,        \* c.batchMaxSize
    batchFlushInterval,  \* c.batchFlushInterval
    envelopes,           \* buffer of the channel c.envelopes
    closed,              \* c.envelopes has been closed
    sender,              \* c.sender # nil
    pstate,              \* producer: "idle", "blocked", "panicked"
    penv,                \* producer: the envelope of its blocked send (0: none)
    cstate,              \* CloseSend caller: "idle", "recv", "returned"
    closeResult,         \* value received from c.closeErrors
    pc,                  \* dispatcher's position
    batch,               \* startSender's local batch
    timerActive,         \* timer t is armed
    remaining,           \* clock ticks until an armed t expires (0: not armed)
    tC,                  \* a value is buffered in t.C
    nextId,              \* history: id of the next record created
    accepted,            \* history: records in the order the channel took them
    dequeued,            \* history: records in the order the dispatcher read them
    flushLog,            \* history: one entry per call of c.flush
    pendingAtClose,      \* history: batch \o envelopes when close() ran
    blockedAtClose,      \* history: a producer was blocked on a full channel
                         \*   when close() ran
    sinceSize            \* history: ticks since the last size-triggered flush
                         \*   returned (-1: none within the last
                         \*   batchFlushInterval ticks, or a read of t.C followed)

vars == <<batchMaxSize, batchFlushInterval, envelopes, closed, sender, pstate,
          penv, cstate, closeResult, pc, batch, timerActive, remaining, tC,
          nextId, accepted, dequeued, flushLog, pendingAtClose, blockedAtClose,
          sinceSize>>

config  == <<batchMaxSize, batchFlushInterval>>
prodVars == <<pstate, penv, nextId>>
closerVars == <<cstate, closeResult>>
closeHist == <<pendingAtClose, blockedAtClose>>
timerVars == <<timerActive, remaining, tC>>
gapVars == <<sinceSize>>

\* ------------------------------------------------------------ helpers ---
Last(s) == s[Len(s)]

RECURSIVE ConcatBatches(_)
ConcatBatches(log) ==
    IF log = <<>> THEN <<>>
    ELSE ConcatBatches(SubSeq(log, 1, Len(log) - 1)) \o Last(log).batch

Range(s) == {s[i] : i \in 1..Len(s)}

NoDup(s) == \A i, j \in 1..Len(s) : s[i] = s[j] => i = j

Count(s, x) == Cardinality({i \in 1..Len(s) : s[i] = x})

\* the entry of the flush in progress / last completed
Cur == Last(flushLog)

SetCur(e) == [flushLog EXCEPT ![Len(flushLog)] = e]

\* --------------------------------------------------------------- Init ---
Init ==
    /\ batchMaxSize \in 0..MaxBatchMaxSize
    /\ batchFlushInterval = MaxFlushInterval
    /\ envelopes = <<>>
    /\ closed = FALSE
    /\ sender = FALSE
    /\ pstate = [p \in Producers |-> "idle"]
    /\ penv = [p \in Producers |-> 0]
    /\ cstate = "idle"
    /\ closeResult = "none"
    /\ pc = "select"
    /\ batch = <<>>
    /\ timerActive = TRUE
    /\ remaining = batchFlushInterval
    /\ tC = FALSE
    /\ nextId = 1
    /\ accepted = <<>>
    /\ dequeued = <<>>
    /\ flushLog = <<>>
    /\ pendingAtClose = <<>>
    /\ blockedAtClose = FALSE
    /\ sinceSize = -1

\* ---------------------------------------------------------- producers ---
\* EmitLog / EmitGauge / EmitCounter: build the envelope e (local), then
\* c.envelopes <- e.  On a closed channel the send panics ("send on closed
\* channel"); on an open channel with room it enqueues; on a full one it
\* blocks.
Emit(p) ==
    /\ pstate[p] = "idle"
    /\ nextId <= MaxRecords
    /\ nextId' = nextId + 1
    /\ IF closed
       THEN /\ pstate' = [pstate EXCEPT ![p] = "panicked"]
            /\ UNCHANGED <<penv, envelopes, accepted>>
       ELSE IF Len(envelopes) < QueueCap
       THEN /\ envelopes' = Append(envelopes, nextId)
            /\ accepted' = Append(accepted, nextId)
            /\ UNCHANGED <<pstate, penv>>
       ELSE /\ pstate' = [pstate EXCEPT ![p] = "blocked"]
            /\ penv' = [penv EXCEPT ![p] = nextId]
            /\ UNCHANGED <<envelopes, accepted>>
    /\ UNCHANGED <<config, closed, sender, closerVars, pc, batch, timerVars,
                   dequeued, flushLog, closeHist, gapVars>>

\* A send blocked on the full channel completes once there is room.
ChanSend(p) ==
    /\ pstate[p] = "blocked"
    /\ ~closed
    /\ Len(envelopes) < QueueCap
    /\ envelopes' = Append(envelopes, penv[p])
    /\ accepted' = Append(accepted, penv[p])
    /\ pstate' = [pstate EXCEPT ![p] = "idle"]
    /\ penv' = [penv EXCEPT ![p] = 0]
    /\ UNCHANGED <<config, closed, sender, closerVars, pc, batch, timerVars,
                   nextId, dequeued, flushLog, closeHist, gapVars>>

\* A send that is blocked when the channel is closed panics ("send on closed
\* channel").
ChanSendClosed(p) ==
    /\ pstate[p] = "blocked"
    /\ closed
    /\ pstate' = [pstate EXCEPT ![p] = "panicked"]
    /\ penv' = [penv EXCEPT ![p] = 0]
    /\ UNCHANGED <<config, envelopes, closed, sender, nextId, closerVars,
                   pc, batch, timerVars, accepted, dequeued, flushLog,
                   closeHist, gapVars>>

\* ------------------------------------------------------------- closer ---
\* CloseSend: close(c.envelopes), then wait on <-c.closeErrors.
CloseSend ==
    /\ cstate = "idle"
    /\ closed' = TRUE
    /\ cstate' = "recv"
    /\ pendingAtClose' = batch \o envelopes
    /\ blockedAtClose' = \E p \in Producers : pstate[p] = "blocked"
    /\ UNCHANGED <<config, envelopes, sender, prodVars, closeResult, pc, batch,
                   timerVars, accepted, dequeued, flushLog, gapVars>>

\* -------------------------------------------------------------- timer ---
\* One tick of the clock.
Tick ==
    /\ remaining' = IF timerActive /\ remaining > 0
                    THEN remaining - 1 ELSE remaining
    /\ sinceSize' = IF sinceSize >= 0 /\ sinceSize + 1 < batchFlushInterval
                    THEN sinceSize + 1 ELSE -1
    /\ UNCHANGED <<config, envelopes, closed, sender, prodVars, closerVars, pc,
                   batch, timerActive, tC, accepted, dequeued, flushLog,
                   closeHist>>

\* The runtime fires an armed timer at or after its expiry: sends on t.C.
TimerFire ==
    /\ timerActive
    /\ remaining = 0
    /\ timerActive' = FALSE
    /\ tC' = TRUE
    /\ UNCHANGED <<config, envelopes, closed, sender, prodVars, closerVars, pc,
                   batch, remaining, accepted, dequeued, flushLog,
                   closeHist, gapVars>>

\* --------------------------------------------------------- dispatcher ---
\* Mutant of StartFlush: emit calls BatchSender whether or not c.sender is nil.
StartFlushAlwaysEstablishes(trig, b) ==
    /\ flushLog' = Append(flushLog,
                          [trig |-> trig, batch |-> b, calls |-> <<>>,
                           err |-> "pending"])
    /\ pc' = "establish"

\* A call c.flush(b, close): flush calls emit, whose first statement tests
\* c.sender == nil.
StartFlush(trig, b) ==
    /\ flushLog' = Append(flushLog,
                          [trig |-> trig, batch |-> b, calls |-> <<>>,
                           err |-> "pending"])
    /\ pc' = IF sender THEN "send" ELSE "establish"

\* Mutant of RecvEnvelope: the new envelope is put in front of the batch.
RecvEnvelopePrepends ==
    /\ pc = "select"
    /\ envelopes # <<>>
    /\ LET env == Head(envelopes)
           nb == <<env>> \o batch
       IN /\ envelopes' = Tail(envelopes)
          /\ dequeued' = Append(dequeued, env)
          /\ batch' = nb
          /\ IF Len(nb) >= batchMaxSize
             THEN StartFlush("size", nb)
             ELSE UNCHANGED <<pc, flushLog>>
    /\ UNCHANGED <<config, closed, sender, prodVars, closerVars, timerVars,
                   accepted, closeHist, gapVars>>

\* Mutant of RecvEnvelope: the size test is one record early.
RecvEnvelopeFlushesEarly ==
    /\ pc = "select"
    /\ envelopes # <<>>
    /\ LET env == Head(envelopes)
           nb == Append(batch, env)
       IN /\ envelopes' = Tail(envelopes)
          /\ dequeued' = Append(dequeued, env)
          /\ batch' = nb
          /\ IF Len(nb) + 1 >= batchMaxSize
             THEN StartFlush("size", nb)
             ELSE UNCHANGED <<pc, flushLog>>
    /\ UNCHANGED <<config, closed, sender, prodVars, closerVars, timerVars,
                   accepted, closeHist, gapVars>>

\* Mutant of RecvEnvelope: the size test is > instead of >=.
RecvEnvelopeFlushesLate ==
    /\ pc = "select"
    /\ envelopes # <<>>
    /\ LET env == Head(envelopes)
           nb == Append(batch, env)
       IN /\ envelopes' = Tail(envelopes)
          /\ dequeued' = Append(dequeued, env)
          /\ batch' = nb
          /\ IF Len(nb) > batchMaxSize
             THEN StartFlush("size", nb)
             ELSE UNCHANGED <<pc, flushLog>>
    /\ UNCHANGED <<config, closed, sender, prodVars, closerVars, timerVars,
                   accepted, closeHist, gapVars>>

\* select, case env := <-c.envelopes with env # nil: append, flush when full.
RecvEnvelope ==
    /\ pc = "select"
    /\ envelopes # <<>>
    /\ LET env == Head(envelopes)
           nb == Append(batch, env)
       IN /\ envelopes' = Tail(envelopes)
          /\ dequeued' = Append(dequeued, env)
          /\ batch' = nb
          /\ IF Len(nb) >= batchMaxSize
             THEN StartFlush("size", nb)
             ELSE UNCHANGED <<pc, flushLog>>
    /\ UNCHANGED <<config, closed, sender, prodVars, closerVars, timerVars,
                   accepted, closeHist, gapVars>>

\* Mutant of RecvClosed: the drain calls c.flush(nil, true).
RecvClosedDropsBatch ==
    /\ pc = "select"
    /\ closed
    /\ envelopes = <<>>
    /\ StartFlush("drain", <<>>)
    /\ UNCHANGED <<config, envelopes, closed, sender, prodVars, closerVars,
                   batch, timerVars, accepted, dequeued, closeHist,
                   gapVars>>

\* Mutant of RecvClosed: the closed channel yields nil while records are
\* still buffered in it.
RecvClosedDiscardsQueue ==
    /\ pc = "select"
    /\ closed
    /\ StartFlush("drain", batch)
    /\ UNCHANGED <<config, envelopes, closed, sender, prodVars, closerVars,
                   batch, timerVars, accepted, dequeued, closeHist,
                   gapVars>>

\* select, case env := <-c.envelopes with env = nil: the channel is closed and
\* its buffer is empty.  c.flush(batch, true).
RecvClosed ==
    /\ pc = "select"
    /\ closed
    /\ envelopes = <<>>
    /\ StartFlush("drain", batch)
    /\ UNCHANGED <<config, envelopes, closed, sender, prodVars, closerVars,
                   batch, timerVars, accepted, dequeued, closeHist,
                   gapVars>>

\* Mutant of RecvTimer: t.Reset is left out when the batch is empty.
RecvTimerNoResetWhenEmpty ==
    /\ pc = "select"
    /\ tC
    /\ tC' = FALSE
    /\ sinceSize' = -1
    /\ IF Len(batch) > 0
       THEN StartFlush("time", batch)
       ELSE UNCHANGED <<pc, flushLog>>
    /\ UNCHANGED <<config, envelopes, closed, sender, prodVars, closerVars,
                   batch, timerActive, remaining, accepted, dequeued,
                   closeHist>>

\* select, case <-t.C: flush a non-empty batch; otherwise t.Reset at once.
RecvTimer ==
    /\ pc = "select"
    /\ tC
    /\ tC' = FALSE
    /\ sinceSize' = -1
    /\ IF Len(batch) > 0
       THEN /\ StartFlush("time", batch)
            /\ UNCHANGED <<timerActive, remaining>>
       ELSE /\ timerActive' = TRUE
            /\ remaining' = batchFlushInterval
            /\ UNCHANGED <<pc, flushLog>>
    /\ UNCHANGED <<config, envelopes, closed, sender, prodVars, closerVars,
                   batch, accepted, dequeued, closeHist>>

\* Mutant of Establish: a failed BatchSender ends the dispatcher loop.
EstablishFailureStops ==
    /\ pc = "establish"
    /\ \E ok \in BOOLEAN :
         /\ sender' = ok
         /\ flushLog' = SetCur([Cur EXCEPT !.calls = Append(@, "establish"),
                                           !.err = IF ok THEN @ ELSE "estErr"])
         /\ pc' = IF ok THEN "send"
                  ELSE IF Cur.trig = "drain" THEN "flushed" ELSE "done"
    /\ UNCHANGED <<config, envelopes, closed, prodVars, closerVars, batch,
                   timerVars, accepted, dequeued, closeHist,
                   gapVars>>

\* Mutant of Establish: a failed BatchSender leaves a handle in c.sender.
EstablishFailureKeepsHandle ==
    /\ pc = "establish"
    /\ \E ok \in BOOLEAN :
         /\ sender' = TRUE
         /\ flushLog' = SetCur([Cur EXCEPT !.calls = Append(@, "establish"),
                                           !.err = IF ok THEN @ ELSE "estErr"])
         /\ pc' = IF ok THEN "send" ELSE "flushed"
    /\ UNCHANGED <<config, envelopes, closed, prodVars, closerVars, batch,
                   timerVars, accepted, dequeued, closeHist,
                   gapVars>>

\* emit: c.sender, err = c.client.BatchSender(ctx).  On an error the stream
\* returned is nil and emit returns the error.
Establish ==
    /\ pc = "establish"
    /\ \E ok \in BOOLEAN :
         /\ sender' = ok
         /\ flushLog' = SetCur([Cur EXCEPT !.calls = Append(@, "establish"),
                                           !.err = IF ok THEN @ ELSE "estErr"])
         /\ pc' = IF ok THEN "send" ELSE "flushed"
    /\ UNCHANGED <<config, envelopes, closed, prodVars, closerVars, batch,
                   timerVars, accepted, dequeued, closeHist,
                   gapVars>>

\* Mutant of Send: a failed Send leaves c.sender set.
SendKeepsSender ==
    /\ pc = "send"
    /\ \E ok \in BOOLEAN :
         /\ sender' = sender
         /\ flushLog' = SetCur([Cur EXCEPT
                !.calls = Append(@, "send"),
                !.err = IF ~ok THEN "sendErr"
                        ELSE IF Cur.trig = "drain" THEN @ ELSE "nil"])
         /\ pc' = IF ok /\ Cur.trig = "drain" THEN "close" ELSE "flushed"
    /\ UNCHANGED <<config, envelopes, closed, prodVars, closerVars, batch,
                   timerVars, accepted, dequeued, closeHist,
                   gapVars>>

\* Mutant of Send: emit returns nil after a successful Send, also when close
\* is set.
SendNeverCloses ==
    /\ pc = "send"
    /\ \E ok \in BOOLEAN :
         /\ sender' = IF ok THEN sender ELSE FALSE
         /\ flushLog' = SetCur([Cur EXCEPT
                !.calls = Append(@, "send"),
                !.err = IF ~ok THEN "sendErr" ELSE "nil"])
         /\ pc' = "flushed"
    /\ UNCHANGED <<config, envelopes, closed, prodVars, closerVars, batch,
                   timerVars, accepted, dequeued, closeHist,
                   gapVars>>

\* emit: err := c.sender.Send(batch).  On an error c.sender = nil and emit
\* returns it; otherwise emit goes on to CloseSend when close is set.
Send ==
    /\ pc = "send"
    /\ \E ok \in BOOLEAN :
         /\ sender' = IF ok THEN sender ELSE FALSE
         /\ flushLog' = SetCur([Cur EXCEPT
                !.calls = Append(@, "send"),
                !.err = IF ~ok THEN "sendErr"
                        ELSE IF Cur.trig = "drain" THEN @ ELSE "nil"])
         /\ pc' = IF ok /\ Cur.trig = "drain" THEN "close" ELSE "flushed"
    /\ UNCHANGED <<config, envelopes, closed, prodVars, closerVars, batch,
                   timerVars, accepted, dequeued, closeHist,
                   gapVars>>

\* emit: return c.sender.CloseSend().
StreamClose ==
    /\ pc = "close"
    /\ \E ok \in BOOLEAN :
         flushLog' = SetCur([Cur EXCEPT
                !.calls = Append(@, "close"),
                !.err = IF ok THEN "nil" ELSE "closeErr"])
    /\ pc' = "flushed"
    /\ UNCHANGED <<config, envelopes, closed, sender, prodVars, closerVars,
                   batch, timerVars, accepted, dequeued, closeHist,
                   gapVars>>

\* Mutant of FlushedSize: t.Reset without t.Stop and without draining t.C.
FlushedSizeNoStop ==
    /\ pc = "flushed"
    /\ Cur.trig = "size"
    /\ batch' = <<>>
    /\ sinceSize' = 0
    /\ pc' = "reset"
    /\ UNCHANGED <<config, envelopes, closed, sender, prodVars, closerVars,
                   timerVars, accepted, dequeued, flushLog, closeHist>>

\* Mutant of FlushedSize: t.C is read after every Stop, also after one that
\* stopped a running timer.
FlushedSizeAlwaysDrains ==
    /\ pc = "flushed"
    /\ Cur.trig = "size"
    /\ batch' = <<>>
    /\ sinceSize' = 0
    /\ timerActive' = FALSE
    /\ remaining' = IF timerActive THEN 0 ELSE remaining
    /\ pc' = "drainTimer"
    /\ UNCHANGED <<config, envelopes, closed, sender, prodVars, closerVars,
                   tC, accepted, dequeued, flushLog,
                   closeHist>>

\* After the size-triggered c.flush: batch = nil; t.Stop().  Stop reports
\* false when the timer has already expired, and then t.C is drained.
FlushedSize ==
    /\ pc = "flushed"
    /\ Cur.trig = "size"
    /\ batch' = <<>>
    /\ sinceSize' = 0
    /\ IF timerActive
       THEN /\ timerActive' = FALSE
            /\ remaining' = 0
            /\ pc' = "reset"
       ELSE /\ pc' = "drainTimer"
            /\ UNCHANGED <<timerActive, remaining>>
    /\ UNCHANGED <<config, envelopes, closed, sender, prodVars, closerVars,
                   tC, accepted, dequeued, flushLog,
                   closeHist>>

\* <-t.C after a Stop that reported false.
DrainTimer ==
    /\ pc = "drainTimer"
    /\ tC
    /\ tC' = FALSE
    /\ pc' = "reset"
    /\ UNCHANGED <<config, envelopes, closed, sender, prodVars, closerVars,
                   batch, timerActive, remaining, accepted, dequeued,
                   flushLog, closeHist, gapVars>>

\* t.Reset(c.batchFlushInterval) closing the size-triggered branch.
TimerReset ==
    /\ pc = "reset"
    /\ timerActive' = TRUE
    /\ remaining' = batchFlushInterval
    /\ pc' = "select"
    /\ UNCHANGED <<config, envelopes, closed, sender, prodVars, closerVars,
                   batch, tC, accepted, dequeued, flushLog,
                   closeHist, gapVars>>

\* Mutant of FlushedTime: the batch is kept after a time-triggered flush.
FlushedTimeKeepsBatch ==
    /\ pc = "flushed" /\ Cur.trig = "time"
    /\ batch' = batch /\ timerActive' = TRUE /\ remaining' = batchFlushInterval
    /\ pc' = "select"
    /\ UNCHANGED <<config, envelopes, closed, sender, prodVars, closerVars,
                   tC, accepted, dequeued, flushLog, closeHist,
                   gapVars>>

\* Mutant of FlushedTime: no t.Reset after the time-triggered flush.
FlushedTimeNoReset ==
    /\ pc = "flushed" /\ Cur.trig = "time"
    /\ batch' = <<>>
    /\ pc' = "select"
    /\ UNCHANGED <<config, envelopes, closed, sender, prodVars, closerVars,
                   timerVars, accepted, dequeued, flushLog, closeHist,
                   gapVars>>

\* After the time-triggered c.flush: batch = nil; t.Reset(...).
FlushedTime ==
    /\ pc = "flushed"
    /\ Cur.trig = "time"
    /\ batch' = <<>>
    /\ timerActive' = TRUE
    /\ remaining' = batchFlushInterval
    /\ pc' = "select"
    /\ UNCHANGED <<config, envelopes, closed, sender, prodVars, closerVars,
                   tC, accepted, dequeued, flushLog, closeHist,
                   gapVars>>

\* Mutant of HandOff: the value handed to CloseSend is the first error of any
\* flush, the drain flush's outcome only when no earlier flush failed.
HandOffStickyError ==
    /\ pc = "flushed" /\ Cur.trig = "drain" /\ cstate = "recv"
    /\ LET bad == {i \in 1..Len(flushLog) : flushLog[i].err # "nil"}
       IN closeResult' = IF bad = {} THEN Cur.err
                         ELSE flushLog[CHOOSE i \in bad : \A j \in bad : i <= j].err
    /\ cstate' = "returned" /\ pc' = "done"
    /\ UNCHANGED <<config, envelopes, closed, sender, prodVars, batch,
                   timerVars, accepted, dequeued, flushLog, closeHist,
                   gapVars>>

\* Mutant of HandOff: no return after the hand-off, the loop selects again.
HandOffNoReturn ==
    /\ pc = "flushed" /\ Cur.trig = "drain" /\ cstate = "recv"
    /\ closeResult' = Cur.err /\ cstate' = "returned" /\ pc' = "select"
    /\ UNCHANGED <<config, envelopes, closed, sender, prodVars, batch,
                   timerVars, accepted, dequeued, flushLog, closeHist,
                   gapVars>>

\* c.closeErrors <- err meets <-c.closeErrors (unbuffered channel): CloseSend
\* returns err and startSender returns.
HandOff ==
    /\ pc = "flushed"
    /\ Cur.trig = "drain"
    /\ cstate = "recv"
    /\ closeResult' = Cur.err
    /\ cstate' = "returned"
    /\ pc' = "done"
    /\ UNCHANGED <<config, envelopes, closed, sender, prodVars, batch,
                   timerVars, accepted, dequeued, flushLog,
                   closeHist, gapVars>>

\* --------------------------------------------------------------- Spec ---
Next ==
    \/ \E p \in Producers : Emit(p)
    \/ \E p \in Producers : ChanSend(p)
    \/ \E p \in Producers : ChanSendClosed(p)
    \/ CloseSend
    \/ Tick
    \/ TimerFire
    \/ RecvEnvelope
    \/ RecvClosed
    \/ RecvTimer
    \/ Establish
    \/ Send
    \/ StreamClose
    \/ FlushedSize
    \/ DrainTimer
    \/ TimerReset
    \/ FlushedTime
    \/ HandOff

Spec == Init /\ [][Next]_vars

\* The steps of the startSender goroutine.
Dispatcher ==
    \/ RecvEnvelope
    \/ RecvClosed
    \/ RecvTimer
    \/ Establish
    \/ Send
    \/ StreamClose
    \/ FlushedSize
    \/ DrainTimer
    \/ TimerReset
    \/ FlushedTime
    \/ HandOff

\* Scheduling of the startSender goroutine: the Go scheduler runs a runnable
\* goroutine eventually and every transport call returns (weak fairness on
\* its steps); the select at line 319 picks uniformly at random among its
\* ready cases, so the channel case, when it stays ready from one select to
\* the next, is taken eventually and the timer case cannot be picked for ever
\* (weak fairness on the channel case).
Fairness ==
    /\ WF_vars(Dispatcher)
    /\ WF_vars(RecvEnvelope \/ RecvClosed)

SpecFair == Spec /\ Fairness

TypeOK ==
    /\ batchMaxSize \in 0..MaxBatchMaxSize
    /\ batchFlushInterval \in 1..MaxFlushInterval
    /\ Len(envelopes) <= QueueCap
    /\ closed \in BOOLEAN /\ sender \in BOOLEAN
    /\ pc \in {"select", "establish", "send", "close", "flushed",
               "drainTimer", "reset", "done"}
    /\ cstate \in {"idle", "recv", "returned"}
    /\ remaining \in 0..batchFlushInterval

\* ------------------------------------------------- derived histories ---
\* The batch startSender holds that no flush has been given yet.
Unflushed == IF pc \in {"select", "drainTimer", "reset"} THEN batch ELSE <<>>

\* All calls made on the transport, in order.
RECURSIVE AllCalls(_)
AllCalls(log) ==
    IF log = <<>> THEN <<>>
    ELSE AllCalls(SubSeq(log, 1, Len(log) - 1)) \o Last(log).calls

WasSent(e) == "send" \in Range(e.calls)
EstOk(e) == e.err # "estErr"
IsTime(e) == e.trig = "time"

\* Concatenation of the batches handed to sender.Send, in send order.
SentConcat == ConcatBatches(SelectSeq(flushLog, WasSent))

DrainIdx == {i \in 1..Len(flushLog) : flushLog[i].trig = "drain"}

Returned == cstate = "returned"

\* The drain flush got as far as a successful Send.
DrainSendOk == Cur.err \in {"nil", "closeErr"}

\* ------------------------------------------------------------- claims ---

\* C1: when CloseSend is called with records pending (in the channel or in
\* the batch), then by the time CloseSend has returned the channel is empty,
\* every pending record has been handed to exactly one flush, the records not
\* handed to an earlier flush are the batch of the one drain flush (the last
\* flush), and that flush, with its stream close when one was attempted, has
\* completed and its outcome is the value returned.
C1_DrainFlushesPending ==
    (Returned /\ pendingAtClose # <<>>) =>
        /\ pc = "done"
        /\ envelopes = <<>>
        /\ Cardinality(DrainIdx) = 1
        /\ Cur.trig = "drain"
        /\ Cur.err # "pending"
        /\ closeResult = Cur.err
        /\ ("close" \in Range(Cur.calls) => Cur.err \in {"nil", "closeErr"})
        /\ \A r \in Range(pendingAtClose) :
               Count(ConcatBatches(flushLog), r) = 1
        /\ LET earlier ==
                 Range(ConcatBatches(SubSeq(flushLog, 1, Len(flushLog) - 1)))
               NotEarlier(r) == r \notin earlier
           IN Cur.batch = SelectSeq(pendingAtClose, NotEarlier)

C1_Witness ==
    /\ Returned
    /\ Len(pendingAtClose) >= 2
    /\ Cur.trig = "drain"
    /\ Cur.batch # <<>>
    /\ Len(flushLog) >= 2

\* C2 as stated: CloseSend with nothing pending gives one drain flush with an
\* empty batch and exactly one stream-close call.
C2_Orig_AlwaysOneClose ==
    (Returned /\ pendingAtClose = <<>>) =>
        /\ Cardinality(DrainIdx) = 1
        /\ Cur.trig = "drain"
        /\ Cur.batch = <<>>
        /\ Count(AllCalls(flushLog), "close") = 1

\* C2 amended: CloseSend with nothing pending gives exactly one drain flush,
\* the last flush, with an empty batch; the stream close is called exactly
\* once when that flush's establishment (if any) and Send succeeded, as the
\* last call, and is not called at all otherwise.
C2_EmptyDrainFlush ==
    (Returned /\ pendingAtClose = <<>>) =>
        /\ pc = "done"
        /\ Cardinality(DrainIdx) = 1
        /\ Cur.trig = "drain"
        /\ Cur.batch = <<>>
        /\ Count(AllCalls(flushLog), "close") = (IF DrainSendOk THEN 1 ELSE 0)
        /\ DrainSendOk => Last(Cur.calls) = "close"
        /\ Cur.err = "estErr" => Cur.calls = <<"establish">>
        /\ Cur.err = "sendErr" => Last(Cur.calls) = "send"

C2_Witness ==
    /\ Returned
    /\ pendingAtClose = <<>>
    /\ Cur.batch = <<>>
    /\ Cur.calls = <<"establish", "send", "close">>
    /\ closeResult = "nil"

\* C3 as stated: after the final shutdown the concatenation of the batches
\* handed to Send, in send order, equals the order of acceptance.
C3_Orig_SentEqualsAccepted ==
    Returned => SentConcat = accepted

\* C3 amended: at every moment the batches handed to the flush path, in flush
\* order, followed by the batch not yet flushed and the channel's buffer, are
\* the records in the order of acceptance; after the shutdown the batches
\* handed to Send, in send order, are that sequence without the batches of
\* the flushes whose stream establishment failed.
C3_FlushOrder ==
    /\ ConcatBatches(flushLog) \o Unflushed \o envelopes = accepted
    /\ Returned =>
         /\ ConcatBatches(flushLog) = accepted
         /\ SentConcat = ConcatBatches(SelectSeq(flushLog, EstOk))

C3_Witness ==
    /\ Returned
    /\ Len(accepted) = MaxRecords
    /\ SentConcat = accepted
    /\ Len(SelectSeq(flushLog, WasSent)) >= 2

\* C4: while the dispatcher is in a flush (establishing, sending, closing),
\* that flush was started by a batch of at least batchMaxSize records, by a
\* read of the timer channel, or by the closed channel; and as long as fewer
\* than batchMaxSize records have been dequeued, the channel is not closed and
\* no timer-triggered flush has happened, there has been no flush at all: no
\* establishment and no send.
C4_NoEarlyFlush ==
    /\ pc \in {"establish", "send", "close"} =>
          \/ Cur.trig = "size" /\ Len(Cur.batch) >= batchMaxSize
                               /\ Cur.batch = batch
          \/ Cur.trig = "time"
          \/ Cur.trig = "drain" /\ closed
    /\ \A i \in 1..Len(flushLog) :
          flushLog[i].trig = "size" => Len(flushLog[i].batch) >= batchMaxSize
    /\ (Len(dequeued) < batchMaxSize /\ ~closed
            /\ SelectSeq(flushLog, IsTime) = <<>>) =>
          /\ flushLog = <<>>
          /\ ~sender
          /\ pc = "select"

C4_Witness ==
    /\ pc = "select"
    /\ batch # <<>>
    /\ Len(batch) < batchMaxSize
    /\ envelopes # <<>>
    /\ ~closed
    /\ flushLog = <<>>

\* C5 as stated: no submission call ever panics, in any reachable state.
C5_EmitNeverPanics ==
    \A p \in Producers : pstate[p] # "panicked"

\* C6: the records read by the dispatcher followed by those still in the
\* channel are the accepted records, each once, in every state; when the
\* dispatcher has returned the channel is empty and every accepted record was
\* read; a record whose send blocked or panicked was never accepted.
C6_ExactlyOnce ==
    /\ dequeued \o envelopes = accepted
    /\ NoDup(accepted)
    /\ \A p \in Producers : penv[p] # 0 => penv[p] \notin Range(accepted)
    /\ Range(accepted) \subseteq 1..(nextId - 1)
    /\ pc = "done" => envelopes = <<>> /\ dequeued = accepted
    /\ Returned => pc = "done"

C6_Witness ==
    /\ pc = "done"
    /\ blockedAtClose
    /\ Len(dequeued) = QueueCap
    /\ \E p \in Producers : pstate[p] = "panicked"

\* C7: after a flush whose Send failed the stream handle is absent, and the
\* next flush calls BatchSender exactly once, as its first call, before any
\* Send; a flush that follows a flush without error calls BatchSender not at
\* all.  No flush establishes twice, and Send is only ever the first call or
\* the call right after the establishment.
C7_Reestablish ==
    /\ (flushLog # <<>> /\ Cur.err = "sendErr") => ~sender
    /\ \A i \in 1..Len(flushLog) :
         LET e == flushLog[i]
             prevErr == IF i = 1 THEN "none" ELSE flushLog[i - 1].err
             started == e.calls # <<>>
         IN /\ Count(e.calls, "establish") <= 1
            /\ \A k \in 1..Len(e.calls) :
                  e.calls[k] = "send" =>
                     k = 1 \/ (k = 2 /\ e.calls[1] = "establish")
            /\ (prevErr = "sendErr" /\ started) => e.calls[1] = "establish"
            /\ (prevErr = "sendErr" /\ e.err # "pending") =>
                  Count(e.calls, "establish") = 1
            /\ prevErr = "nil" =>
                  /\ "establish" \notin Range(e.calls)
                  /\ e.err # "pending" => e.calls[1] = "send"

C7_Witness ==
    \E i \in 1..(Len(flushLog) - 1) :
        /\ flushLog[i].err = "sendErr"
        /\ flushLog[i + 1].calls = <<"establish", "send">>
        /\ flushLog[i + 1].err = "nil"
        /\ i + 2 <= Len(flushLog)
        /\ flushLog[i + 2].calls = <<"send">>

\* C8: every read of the timer channel by the select that follows a
\* size-triggered flush comes at least one full batchFlushInterval after that
\* flush returned, also when the timer had expired before the flush and its
\* value was still in the channel.
C8_TimerRestart ==
    [][(pc = "select" /\ tC /\ ~tC') =>
          sinceSize = -1]_vars

\* a timer-triggered flush that follows a size-triggered one
C8_Witness ==
    \E i \in 1..Len(flushLog) : \E j \in 1..Len(flushLog) :
        /\ i < j
        /\ flushLog[i].trig = "size"
        /\ flushLog[j].trig = "time"

\* The flushes of a run without timer-triggered flush, for N accepted records
\* and batchMaxSize M >= 1: N \div M size-triggered flushes of M records each,
\* in the order of acceptance, then one drain flush with the other N % M.
Chunked ==
    LET N == Len(accepted)
        M == batchMaxSize
        q == N \div M
    IN /\ Len(flushLog) = q + 1
       /\ \A i \in 1..q :
             /\ flushLog[i].trig = "size"
             /\ flushLog[i].batch = SubSeq(accepted, (i - 1) * M + 1, i * M)
       /\ flushLog[q + 1].trig = "drain"
       /\ flushLog[q + 1].batch = SubSeq(accepted, q * M + 1, N)
       /\ Len(flushLog[q + 1].batch) = N % M

C9_Case == Returned /\ batchMaxSize >= 1 /\ SelectSeq(flushLog, IsTime) = <<>>

\* C9 as stated: the size-triggered flushes and the drain flush as in Chunked,
\* followed by the stream close.
C9_Orig_AlwaysClosed ==
    C9_Case => Chunked /\ Cur.calls # <<>> /\ Last(Cur.calls) = "close"

\* C9 amended: the size-triggered flushes and the drain flush as in Chunked;
\* the stream close follows as the last call when the drain flush's
\* establishment (if any) and Send succeeded, and is not called otherwise.
C9_ChunkedFlushes ==
    C9_Case =>
        /\ Chunked
        /\ DrainSendOk => Last(Cur.calls) = "close"
        /\ Count(AllCalls(flushLog), "close") = (IF DrainSendOk THEN 1 ELSE 0)

C9_Witness ==
    /\ C9_Case
    /\ batchMaxSize = 2
    /\ Len(accepted) = 3
    /\ Len(flushLog) = 2
    /\ Len(Cur.batch) = 1
    /\ Last(Cur.calls) = "close"

\* C10: a read of the timer channel with a non-empty batch starts one
\* time-triggered flush of exactly that batch and nothing else; no further
\* flush starts until it has returned, and then the batch is emptied and the
\* timer re-armed for a full interval; a read of the timer channel with an
\* empty batch starts no flush, touches no stream, and re-arms the timer for a
\* full interval.
C10_TimerFlush ==
    [][/\ (pc = "select" /\ tC /\ ~tC' /\ batch # <<>>) =>
            /\ flushLog' = Append(flushLog,
                                  [trig |-> "time", batch |-> batch,
                                   calls |-> <<>>, err |-> "pending"])
            /\ pc' \in {"establish", "send"}
            /\ sender' = sender
            /\ batch' = batch
       /\ (pc = "select" /\ tC /\ ~tC' /\ batch = <<>>) =>
            /\ flushLog' = flushLog
            /\ sender' = sender
            /\ pc' = "select"
            /\ timerActive'
            /\ remaining' = batchFlushInterval
       /\ (pc \in {"establish", "send", "close"} /\ Cur.trig = "time") =>
            /\ Len(flushLog') = Len(flushLog)
            /\ Cur'.batch = Cur.batch
            /\ pc' \in {pc, "send", "flushed"}
       /\ (pc = "flushed" /\ Cur.trig = "time" /\ pc' # pc) =>
            /\ flushLog' = flushLog
            /\ pc' = "select"
            /\ batch' = <<>>
            /\ timerActive'
            /\ remaining' = batchFlushInterval
            /\ ~tC'
      ]_vars

C10_Witness ==
    /\ pc = "select"
    /\ flushLog # <<>>
    /\ Cur.trig = "time"
    /\ Len(Cur.batch) = 1
    /\ batchMaxSize = 2
    /\ Cur.err = "nil"
    /\ batch = <<>>
    /\ timerActive
    /\ remaining = batchFlushInterval

\* C11: whatever the outcome of a size- or time-triggered flush, the
\* dispatcher's next step takes it back towards its select (stop and reset of
\* the timer, never the end of the loop); the read of t.C after a failed Stop
\* never blocks; and the loop ends only on the hand-off of the drain flush,
\* started by the nil read from the closed and empty channel.
C11_LoopSurvivesErrors ==
    [][/\ pc = "drainTimer" => tC
       /\ (pc = "flushed" /\ Cur.trig = "size" /\ pc' # pc) =>
              pc' \in {"reset", "drainTimer"}
       /\ (pc = "flushed" /\ Cur.trig = "time" /\ pc' # pc) => pc' = "select"
       /\ (pc \in {"drainTimer", "reset"} /\ pc' # pc) =>
              pc' \in {"reset", "select"}
       /\ (pc \in {"establish", "send", "close"} /\ pc' # pc) =>
              pc' \in {"send", "close", "flushed"}
       /\ (pc # "done" /\ pc' = "done") =>
              /\ pc = "flushed"
              /\ Cur.trig = "drain"
              /\ closed
              /\ envelopes = <<>>
      ]_vars

\* a record read from the channel after a failed size- or time-triggered flush
C11_Witness ==
    /\ pc = "select"
    /\ ~closed
    /\ flushLog # <<>>
    /\ Cur.trig \in {"size", "time"}
    /\ Cur.err \in {"estErr", "sendErr"}
    /\ batch # <<>>

\* C12: no record is in two flush attempts, and none is at once in a flush
\* attempt and in the batch buffer or the channel (so the records of a failed
\* flush are in no later batch and are not re-queued); the step that follows a
\* size- or time-triggered flush, whatever its outcome, leaves the batch
\* buffer empty.
C12_AtMostOnce ==
    [][/\ NoDup(ConcatBatches(flushLog) \o Unflushed \o envelopes)
       /\ Range(ConcatBatches(flushLog)) \subseteq Range(dequeued)
       /\ (pc = "flushed" /\ Cur.trig \in {"size", "time"} /\ pc' # pc) =>
              batch' = <<>>
       /\ (pc = "select" /\ pc' \in {"establish", "send"}) =>
              Cur'.batch = (IF Cur'.trig = "size" THEN batch' ELSE batch)
      ]_vars

\* a flush that failed on a non-empty batch, then a later flush of other
\* records
C12_Witness ==
    \E i \in 1..Len(flushLog) :
        /\ flushLog[i].err \in {"estErr", "sendErr"}
        /\ flushLog[i].batch # <<>>
        /\ i < Len(flushLog)
        /\ Cur.batch # <<>>
        /\ Cur.err # "pending"

\* C13: the value CloseSend returned is the outcome of the drain flush, the
\* last flush: an establishment error exactly when the drain flush made one
\* BatchSender call and nothing else; a send error exactly when its last call
\* was Send (no stream close); otherwise its last call was the stream close
\* and the value is that call's result.  Earlier flushes' errors play no part.
C13_DrainOutcome ==
    Returned =>
        /\ flushLog # <<>>
        /\ Cur.trig = "drain"
        /\ DrainIdx = {Len(flushLog)}
        /\ closeResult = Cur.err
        /\ closeResult \in {"estErr", "sendErr", "closeErr", "nil"}
        /\ closeResult = "estErr" <=> Cur.calls = <<"establish">>
        /\ closeResult = "sendErr" <=>
               (Cur.calls # <<>> /\ Last(Cur.calls) = "send")
        /\ closeResult \in {"closeErr", "nil"} <=>
               (Cur.calls # <<>> /\ Last(Cur.calls) = "close")
        /\ Count(Cur.calls, "send") <= 1
        /\ Count(Cur.calls, "close") <= 1
        /\ "close" \in Range(Cur.calls) => "send" \in Range(Cur.calls)

\* CloseSend returned success although an earlier flush had failed
C13_Witness ==
    /\ Returned
    /\ closeResult = "nil"
    /\ \E i \in 1..Len(flushLog) : flushLog[i].err \in {"estErr", "sendErr"}

\* C14: the channel never holds more than its capacity; a producer blocks
\* only on a full channel; and a blocked producer leaves its send only by
\* having its record enqueued (the record is not dropped).
C14_BlockNoDrop ==
    [][/\ Len(envelopes) <= QueueCap
       /\ \A p \in Producers :
            /\ (pstate[p] # "blocked" /\ pstate'[p] = "blocked") =>
                   Len(envelopes) = QueueCap
            /\ (pstate[p] = "blocked" /\ pstate'[p] # "blocked") =>
                   /\ pstate'[p] = "idle"
                   /\ accepted' = Append(accepted, penv[p])
                   /\ envelopes' = Append(envelopes, penv[p])
      ]_vars

\* C15: a flush whose BatchSender call failed made that one call and no Send
\* or stream close, and its error is the establishment error; after it the
\* stream handle is absent; and the flush that follows a flush failed at
\* establishment starts with a BatchSender call of its own, one per flush,
\* however many flushes failed before it.
C15_EstablishRetry ==
    \A i \in 1..Len(flushLog) :
        LET e == flushLog[i] IN
        /\ e.err = "estErr" => e.calls = <<"establish">>
        /\ Count(e.calls, "establish") <= 1
        /\ (e.err = "estErr" /\ i = Len(flushLog)) => ~sender
        /\ (e.err = "estErr" /\ i < Len(flushLog)) =>
               LET n == flushLog[i + 1] IN
               \/ n.calls # <<>> /\ n.calls[1] = "establish"
               \/ n.calls = <<>> /\ pc = "establish" /\ i + 1 = Len(flushLog)

\* establishment failed in two flushes in a row and succeeded in the third
C15_Witness ==
    /\ Len(flushLog) >= 3
    /\ \E i \in 1..(Len(flushLog) - 2) :
        /\ flushLog[i].err = "estErr"
        /\ flushLog[i + 1].err = "estErr"
        /\ flushLog[i + 2].calls # <<>>
        /\ flushLog[i + 2].calls[1] = "establish"
        /\ "send" \in Range(flushLog[i + 2].calls)

\* the transport call made in this step, "none" when the step makes none
CallMade ==
    IF Len(flushLog') = Len(flushLog) /\ flushLog # <<>>
       /\ Len(Cur'.calls) = Len(Cur.calls) + 1
    THEN Last(Cur'.calls) ELSE "none"

\* C16: BatchSender is called only while c.sender is nil, Send and the stream
\* close only on a non-nil c.sender, each from the dispatcher's position in
\* emit; a step of a producer or of the caller of CloseSend (up to its wait on
\* closeErrors) leaves c.sender, the batch and the dispatcher's position
\* unchanged.
C16_SingleHandle ==
    [][/\ CallMade = "establish" => (~sender /\ pc = "establish")
       /\ CallMade = "send" => (sender /\ pc = "send")
       /\ CallMade = "close" => (sender /\ pc = "close")
       /\ pc \in {"send", "close"} => sender
       /\ (pstate' # pstate \/ nextId' # nextId \/ closed' # closed) =>
              /\ sender' = sender
              /\ batch' = batch
              /\ pc' = pc
              /\ flushLog' = flushLog
      ]_vars

\* a second stream established after the first was dropped on a failed Send,
\* with producers having run in between
C16_Witness ==
    /\ Count(AllCalls(flushLog), "establish") >= 2
    /\ sender
    /\ \E i \in 1..Len(flushLog) : flushLog[i].err = "sendErr"
    /\ Len(accepted) >= 2

\* C17: for every value of batchMaxSize (0 included), every batch handed to
\* a flush has at most batchMaxSize records and a size-triggered one exactly
\* batchMaxSize.
C17_BoundedBatches ==
    \A i \in 1..Len(flushLog) :
        /\ Len(flushLog[i].batch) <= batchMaxSize
        /\ flushLog[i].trig = "size" => Len(flushLog[i].batch) = batchMaxSize

\* C20: the nil read from the closed channel happens at most once, and only
\* when every record accepted by the channel (so every record enqueued before
\* the close) has been dequeued; it starts the one drain flush, which is the
\* last flush; and once CloseSend has returned the dispatcher has returned
\* too: no step changes the flush log, the stream handle or the dispatcher's
\* position any more.
C20_OneDrain ==
    [][/\ Cardinality(DrainIdx) <= 1
       /\ DrainIdx # {} =>
              /\ DrainIdx = {Len(flushLog)}
              /\ closed
              /\ envelopes = <<>>
              /\ dequeued = accepted
              /\ Range(pendingAtClose) \subseteq
                     Range(ConcatBatches(flushLog))
       /\ (pc \in {"establish", "send", "close", "flushed"} /\ Cur.trig = "drain")
              => cstate = "recv"
       /\ Returned => (DrainIdx # {} /\ pc = "done")
       /\ pc = "done" =>
              /\ pc' = "done"
              /\ flushLog' = flushLog
              /\ sender' = sender
              /\ batch' = batch
              /\ dequeued' = dequeued
      ]_vars

\* CloseSend returned, with records pending at the close, while the timer's
\* expiry sits unread in t.C
C20_Witness ==
    /\ Returned
    /\ tC
    /\ pendingAtClose # <<>>
    /\ Len(flushLog) >= 2

\* C18: while the dispatcher is at its select the timer is either armed, with
\* at most a full interval to go, or has expired with its value unread in
\* t.C; the timer is armed only with an empty batch and for a full interval,
\* and a record is put in the batch only at the select, leaving the timer as
\* it is: so the timer that runs while a record sits in the batch expires no
\* later than one batchFlushInterval after the record was buffered; and the
\* read of that expiry by the select hands the whole batch to a flush, after
\* which the batch is empty.
C18_FlushWithinInterval ==
    [][/\ pc = "select" => (timerActive \/ tC)
       /\ ~(timerActive /\ tC)
       /\ timerActive => remaining <= batchFlushInterval
       /\ (timerActive' /\ (~timerActive \/ remaining' > remaining)) =>
              /\ batch' = <<>>
              /\ remaining' = batchFlushInterval
       /\ (batch' # batch /\ batch' # <<>>) =>
              /\ pc = "select"
              /\ Len(batch') = Len(batch) + 1
              /\ timerActive' = timerActive
              /\ remaining' = remaining
              /\ tC' = tC
       /\ (pc = "select" /\ tC /\ ~tC' /\ batch # <<>>) =>
              /\ Len(flushLog') = Len(flushLog) + 1
              /\ Cur'.batch = batch
       /\ (pc = "flushed" /\ Cur.trig = "time" /\ pc' # pc) =>
              /\ batch' = <<>>
              /\ pc' = "select"
              /\ timerActive'
      ]_vars

\* the dispatcher back at its select after a time-triggered flush, a record
\* in the batch and the timer expired again, its value unread
C18_Witness ==
    /\ pc = "select"
    /\ batch # <<>>
    /\ tC
    /\ flushLog # <<>>
    /\ Cur.trig = "time"
    /\ Cur.batch # <<>>

\* C19: under the scheduling of SpecFair (every transport call returns), a
\* CloseSend that has closed the channel and waits on closeErrors eventually
\* returns, from whatever state the dispatcher was in at the close.
C19_CloseSendReturns == (cstate = "recv") ~> Returned

\* CloseSend returned although it was called while the dispatcher sat between
\* a size-triggered flush and its select (stop, drain of t.C, reset)
C19_Witness ==
    /\ Returned
    /\ \E i \in 1..Len(flushLog) : flushLog[i].trig = "size"
    /\ \E i \in 1..Len(flushLog) : flushLog[i].trig = "time"
    /\ pendingAtClose # <<>>

=============================================================================
